---- MODULE Spec2Model ----
\* Model of margo's kimporter (per-package state registry, import driver,
\* invalidation) and of the completed-package cache mgcCache.
EXTENDS Integers, Sequences, FiniteSets, TLC

\* ---------------------------------------------------------------- bounds
\* number of patterns handed to one call of prune
MaxPats == 2
\* number of root ImportPackage calls made by the callers
MaxCalls == 2
\* number of InvalidateMemo callbacks made by the VFS
MaxInv == 2
\* deepest recursion of state.invalidate that is followed
MaxInvDepth == 4
\* runtime.NumCPU as seen by mgutil.MinNumCPU
NumCPU == 2

\* ---------------------------------------------------------------- values
VARIABLES env, st, gs, inv, tick, calls, mc

vars == <<env, st, gs, inv, tick, calls, mc>>

\* the sources on disk
src == env.src

\* the goroutines that call ImportPackage on a root Importer, and the
\* goroutines the VFS runs InvalidateMemo callbacks on
Callers == {<<1>>, <<2>>}
Invalidators == {1, 2}

NoG == <<>>

Name(ipath, dir) == <<ipath, dir>>

NilErr == [kind |-> "nil", at |-> <<>>, text |-> <<>>]
NilPkg == [path |-> "", at |-> 0, complete |-> FALSE]

\* types.NewPackage("C", "C") marked complete, and types.Unsafe
pkgC == [path |-> "C", at |-> 0, complete |-> TRUE]
pkgUnsafe == [path |-> "unsafe", at |-> 0, complete |-> TRUE]

\* the nil *state of a root Importer
NilKey ==
  [ImportPath |-> "", Dir |-> "", CheckFuncs |-> FALSE, CheckImports |-> FALSE,
   Tests |-> FALSE, NoHash |-> FALSE, TypesInfo |-> 0]

\* Config; SrcMap 0 is the empty overlay, PackageSrc 0 is nil
Cfg(cf, ci, ts, nc, ti, iti, sm, ps) ==
  [CheckFuncs |-> cf, CheckImports |-> ci, Tests |-> ts, NoConcurrency |-> nc,
   TypesInfo |-> ti, ImportsTypesInfo |-> iti, SrcMap |-> sm, PackageSrc |-> ps]

cfgZero == Cfg(FALSE, FALSE, FALSE, FALSE, 0, FALSE, 0, 0)
cfgSeq == Cfg(FALSE, FALSE, FALSE, TRUE, 0, FALSE, 0, 0)
cfgUser1 == Cfg(TRUE, TRUE, TRUE, FALSE, 1, FALSE, 1, 1)
cfgUser2 == Cfg(TRUE, TRUE, TRUE, FALSE, 1, FALSE, 2, 1)
cfgInfo == Cfg(TRUE, TRUE, TRUE, FALSE, 1, TRUE, 1, 1)

\* a directory of sources: its import list, its test imports, whether
\* parseDir accepts it and whether the type checker reports a hard error
Dir(imps, timps, parse, tc) ==
  [imports |-> imps, testImports |-> timps, parse |-> parse, tc |-> tc]

DirOf(ipath) == ipath

\* ---------------------------------------------------------------- pure code
\* srcMapHash: "" (0) for an empty map, else the digest of the whole overlay
srcMapHash(m) == IF m = 0 THEN 0 ELSE 100 + m

\* New(mx, cfg): the root Importer; chain lists the non-nil ks of kp, kp.par, ...
New(cfg) == [cfg |-> cfg, hash |-> srcMapHash(cfg.SrcMap), chain |-> <<>>]

\* kp.mp.FindPkg: the resolver knows the directories of src
findPkg(ipath) ==
  IF ipath \in DOMAIN src
    THEN [ok |-> TRUE, ImportPath |-> ipath, Dir |-> DirOf(ipath)]
    ELSE [ok |-> FALSE, ImportPath |-> ipath, Dir |-> ""]

ErrNotFound(ipath) ==
  [kind |-> "notfound", at |-> <<>>, text |-> <<Name(ipath, "")>>]
ErrParse(pp) ==
  [kind |-> "parse", at |-> <<>>, text |-> <<Name(pp.ImportPath, pp.Dir)>>]
ErrType(pp) ==
  [kind |-> "type", at |-> <<>>, text |-> <<Name(pp.ImportPath, pp.Dir)>>]
ErrCycle(l) == [kind |-> "cycle", at |-> <<>>, text |-> l]
\* the hard types.Error of an import the checker's Importer hook failed on
ErrImport(ipath, err) == [kind |-> "import", at |-> <<ipath>>, text |-> err.text]
\* mg.Issue{Path, Row, Col, Message: err.Error()} at the import spec of ipath
Issue(ks, ipath, err) ==
  [kind |-> "issue", at |-> <<ks.ImportPath, ipath>>, text |-> err.text]

\* an importFakePkg that knows no placeholder
importFakePkgNone(ipath) == NilPkg

importFakePkg(ipath) ==
  CASE ipath = "unsafe" -> pkgUnsafe
    [] ipath = "C" -> pkgC
    [] OTHER -> NilPkg

stateKey(kp, pp) ==
  [ImportPath |-> pp.ImportPath, Dir |-> pp.Dir,
   CheckFuncs |-> kp.cfg.CheckFuncs, CheckImports |-> kp.cfg.CheckImports,
   Tests |-> kp.cfg.Tests, NoHash |-> (kp.hash = 0),
   TypesInfo |-> kp.cfg.TypesInfo]

\* targets that only recognises a state of another package
targetsOther(ks, pp) == ks.ImportPath # pp.ImportPath /\ ks.Dir = pp.Dir

targets(ks, pp) == ks.ImportPath = pp.ImportPath \/ ks.Dir = pp.Dir

\* a detectCycle that finds nothing
detectCycleNone(kp, pp) == NilErr

detectCycle(kp, pp) ==
  LET hits == {i \in 1..Len(kp.chain) : targets(kp.chain[i], pp)} IN
  IF hits = {} THEN NilErr
  ELSE LET j == CHOOSE i \in hits : \A h \in hits : i <= h IN
       ErrCycle(<<Name(pp.ImportPath, pp.Dir)>> \o
                [i \in 1..j |-> Name(kp.chain[i].ImportPath, kp.chain[i].Dir)])

\* a branch that hands the settings of the parent on
branchKeep(kp, ks) ==
  [cfg |-> kp.cfg, hash |-> kp.hash, chain |-> <<ks>> \o kp.chain]

\* the Importer a check of ks runs with
branch(kp, ks) ==
  [cfg |-> [kp.cfg EXCEPT
              !.TypesInfo = IF kp.cfg.ImportsTypesInfo THEN @ ELSE 0,
              !.PackageSrc = 0, !.CheckFuncs = FALSE,
              !.CheckImports = FALSE, !.Tests = FALSE],
   hash |-> 0,
   chain |-> <<ks>> \o kp.chain]

\* &state{stateKey: k}; dirty, cov, ovl are history: an invalidation stored
\* invAt since the last check sampled its chkAt; the largest tick of a
\* completed invalidate call that covered the state; the SrcMap the last
\* check handed to parseDir
NewState ==
  [chkAt |-> 0, invAt |-> 0, imby |-> <<>>, mu |-> NoG, err |-> NilErr,
   pkg |-> NilPkg, hash |-> 0, dirty |-> FALSE, cov |-> 0, ovl |-> 0]

globalState(S, k) ==
  IF k \in DOMAIN S THEN S
  ELSE [x \in DOMAIN S \cup {k} |-> IF x = k THEN NewState ELSE S[x]]

\* an importedBy that appends without the search
importedByDup(S, k, p) == [S EXCEPT ![k].imby = Append(@, p)]

importedBy(S, k, p) ==
  IF \E i \in 1..Len(S[k].imby) : S[k].imby[i] = p THEN S
  ELSE [S EXCEPT ![k].imby = Append(@, p)]

\* valid with the comparison of the ticks the wrong way round
validReversed(s, k, hash) == s.chkAt < s.invAt /\ (k.NoHash \/ s.hash = hash)

\* valid without the comparison of the hashes
validAnyHash(s, k, hash) == s.chkAt > s.invAt

valid(s, k, hash) == s.chkAt > s.invAt /\ (k.NoHash \/ s.hash = hash)

result(s, k) ==
  CASE s.err # NilErr -> [pkg |-> NilPkg, err |-> s.err]
    [] ~s.pkg.complete ->
         [pkg |-> s.pkg,
          err |-> [kind |-> "partial", at |-> <<>>, text |-> <<Name(k.ImportPath, "")>>]]
    [] OTHER -> [pkg |-> s.pkg, err |-> NilErr]

MinNumCPU(n) == IF n < NumCPU THEN n ELSE NumCPU

\* memo.InvAt(): the next tick of the VFS
InvAt(t) == t + 1

\* a Lock that does not wait for the holder
LockNoWait(s) == TRUE

\* ks.mu.Lock() goes through when nobody holds the mutex
Lock(s) == s.mu = NoG

\* ---------------------------------------------------------------- mgcCache
\* mgcSharedCache: the map m, and what the last operation was called with,
\* found and returned
NoCache == [m |-> <<>>, op |-> "", before |-> <<>>, pats |-> <<>>, ret |-> <<>>]

\* mkMgcCacheKey of the directories the cache is used with
CacheKeys == {"/tmp/x", "/tmp/y", "/home/z"}
\* *types.Package values: two complete ones and one that is not
CachePkgs ==
  {[id |-> 1, complete |-> TRUE], [id |-> 2, complete |-> TRUE],
   [id |-> 3, complete |-> FALSE]}
\* mgcCacheEnt
Ent(k, pkg) == [Key |-> k, Pkg |-> pkg, Dur |-> 0]
\* a *regexp.Regexp is the set of keys its MatchString accepts
\* (patterns such as ^$, x$, ^/tmp/ and one that matches every key)
Regexps == {{}, {"/tmp/x"}, {"/tmp/x", "/tmp/y"}, CacheKeys}
MatchString(pat, key) == key \in pat

RECURSIVE SeqsOver(_, _)
SeqsOver(S, n) ==
  IF n = 0 THEN {<<>>}
  ELSE LET R == SeqsOver(S, n - 1) IN R \cup {Append(q, x) : q \in R, x \in S}

\* the orders in which range may visit the keys of a map
RECURSIVE Orders(_)
Orders(K) ==
  IF K = {} THEN {<<>>}
  ELSE UNION {{<<k>> \o o : o \in Orders(K \ {k})} : k \in K}

\* the inner loop of prune for entry e: one append (and delete) per pattern
\* that matches its key
RECURSIVE matches(_, _)
matches(e, pats) ==
  IF pats = <<>> THEN <<>>
  ELSE (IF MatchString(Head(pats), e.Key) THEN <<e>> ELSE <<>>) \o matches(e, Tail(pats))

\* the loop of prune over the entries of m, visited in order ord
RECURSIVE pruned(_, _, _)
pruned(m, ord, pats) ==
  IF ord = <<>> THEN <<>>
  ELSE matches(m[Head(ord)], pats) \o pruned(m, Tail(ord), pats)

\* delete(mc.m, e.Key) for the entries prune appended
remaining(m, pats) ==
  [k \in {x \in DOMAIN m : matches(m[x], pats) = <<>>} |-> m[k]]

\* a put that stores whatever it is given
putAny(e) ==
  /\ mc' = [mc EXCEPT !.op = "put", !.before = mc.m, !.pats = <<>>, !.ret = <<e>>,
                      !.m = [k \in DOMAIN @ \cup {e.Key} |->
                               IF k = e.Key THEN e ELSE @[k]]]

\* mc.put(e): an incomplete package is not stored
put(e) ==
  /\ mc' = [mc EXCEPT !.op = "put", !.before = mc.m, !.pats = <<>>, !.ret = <<e>>,
                      !.m = IF ~e.Pkg.complete THEN @
                            ELSE [k \in DOMAIN @ \cup {e.Key} |->
                                    IF k = e.Key THEN e ELSE @[k]]]

\* mc.del(k)
del(k) ==
  /\ mc' = [mc EXCEPT !.op = "del", !.before = mc.m, !.pats = <<>>, !.ret = <<>>,
                      !.m = [x \in DOMAIN @ \ {k} |-> @[x]]]

\* mc.get(k)
get(k) ==
  /\ mc' = [mc EXCEPT !.op = "get", !.before = mc.m, !.pats = <<>>,
                      !.ret = IF k \in DOMAIN mc.m THEN <<mc.m[k]>> ELSE <<>>]

\* mc.entries(), the map being ranged over in order ord
entries(ord) ==
  /\ mc' = [mc EXCEPT !.op = "entries", !.before = mc.m, !.pats = <<>>,
                      !.ret = [i \in 1..Len(ord) |-> mc.m[ord[i]]]]

\* mc.forEach(f), the map being ranged over in order ord: the calls of f
forEach(ord) ==
  /\ mc' = [mc EXCEPT !.op = "forEach", !.before = mc.m, !.pats = <<>>,
                      !.ret = [i \in 1..Len(ord) |-> mc.m[ord[i]]]]

\* mc.prune(pats...), the map being ranged over in order ord
prune(pats, ord) ==
  /\ mc' = [mc EXCEPT !.op = "prune", !.before = mc.m, !.pats = pats,
                      !.ret = pruned(mc.m, ord, pats),
                      !.m = remaining(mc.m, pats)]

\* ---------------------------------------------------------------- inputs
Req(ipath, cfg) == [ipath |-> ipath, cfg |-> cfg]

\* an environment: the sources, the requests each caller may make and the
\* directories each VFS goroutine may report as changed
Env(dirs, r1, r2, c1, c2) ==
  [src |-> dirs,
   reqs |-> [g \in Callers |-> IF g = <<1>> THEN r1 ELSE r2],
   cbs |-> [i \in Invalidators |-> IF i = 1 THEN c1 ELSE c2]]

Leaf == Dir(<<>>, <<>>, TRUE, TRUE)

\* x imports y, y imports z and w; z changes on disk
ScChain ==
  Env([p \in {"x", "y", "z", "w"} |->
         CASE p = "x" -> Dir(<<"y">>, <<>>, TRUE, TRUE)
           [] p = "y" -> Dir(<<"z", "w">>, <<>>, TRUE, TRUE)
           [] OTHER -> Leaf],
      {Req("x", cfgZero)}, {}, {"z"}, {})

\* a imports b and b imports a; two callers
ScCycle ==
  Env([p \in {"a", "b"} |->
         IF p = "a" THEN Dir(<<"b">>, <<>>, TRUE, TRUE)
                    ELSE Dir(<<"a">>, <<>>, TRUE, TRUE)],
      {Req("a", cfgZero)}, {Req("b", cfgZero)}, {"a"}, {})

\* x imports a and b, which import each other; a second caller imports the
\* placeholder packages
ScFan ==
  Env([p \in {"x", "a", "b"} |->
         CASE p = "x" -> Dir(<<"a", "b">>, <<>>, TRUE, TRUE)
           [] p = "a" -> Dir(<<"b">>, <<>>, TRUE, TRUE)
           [] OTHER -> Dir(<<"a">>, <<>>, TRUE, TRUE)],
      {Req("x", cfgZero)}, {Req("C", cfgUser1), Req("unsafe", cfgZero)}, {}, {})

\* p imports q; the caller edits the overlay between calls; p changes on disk
ScOverlay ==
  Env([p \in {"p", "q"} |->
         IF p = "p" THEN Dir(<<"q">>, <<>>, TRUE, TRUE) ELSE Leaf],
      {Req("p", cfgUser1), Req("p", cfgUser2), Req("p", cfgInfo)}, {}, {"p"}, {})

\* p imports q; two VFS goroutines report changes of q
ScRace ==
  Env([p \in {"p", "q"} |->
         IF p = "p" THEN Dir(<<"q">>, <<>>, TRUE, TRUE) ELSE Leaf],
      {Req("p", cfgZero)}, {}, {"q"}, {"q"})

\* m imports t (a hard type error) and bad (a syntax error); n imports unsafe
\* and a path the resolver does not know; s imports itself
ScErr ==
  Env([p \in {"m", "n", "t", "bad", "s"} |->
         CASE p = "m" -> Dir(<<"t", "bad">>, <<>>, TRUE, TRUE)
           [] p = "n" -> Dir(<<"unsafe", "nosuch">>, <<>>, TRUE, TRUE)
           [] p = "t" -> Dir(<<>>, <<>>, TRUE, FALSE)
           [] p = "s" -> Dir(<<"s">>, <<>>, TRUE, TRUE)
           [] OTHER -> Dir(<<>>, <<>>, FALSE, TRUE)],
      {Req("m", cfgSeq), Req("m", cfgZero), Req("n", cfgSeq), Req("s", cfgZero)}, {},
      {}, {})

Scenarios == {ScChain, ScCycle, ScFan, ScOverlay, ScRace, ScErr}

\* ---------------------------------------------------------------- goroutines
IsCaller(g) == Len(g) = 1
Parent(g) == SubSeq(g, 1, Len(g) - 1)

NoReq == [ipath |-> "", cfg |-> cfgZero]
NoRes == [pkg |-> NilPkg, err |-> NilErr]
Idle == [stk |-> <<>>, req |-> NoReq, res |-> NoRes]

\* one activation of ImportPackage(ipath, srcDir) on Importer kp
Frame(ipath, kp) ==
  [ipath |-> ipath, kp |-> kp, pc |-> "enter", ks |-> NilKey, chkAt |-> 0,
   todo |-> <<>>, imps |-> {}, err |-> NilErr, nw |-> 0, hard |-> NilErr]

Top(g) == gs[g].stk[Len(gs[g].stk)]
Running(g) == g \in DOMAIN gs /\ gs[g].stk # <<>>
SetTop(g, f) == [gs EXCEPT ![g].stk[Len(gs[g].stk)] = f]

\* the paths importDeps imports: bp.Imports, and bp.TestImports iff ks.Tests
depPaths(ks) ==
  LET d == src[ks.ImportPath] IN
  IF ks.Tests
    THEN d.imports \o
         SelectSeq(d.testImports,
                   LAMBDA x : \A i \in 1..Len(d.imports) : d.imports[i] # x)
    ELSE d.imports

\* the next call of kp.ImportPackage(ipath, bp.Dir): by doImport in the
\* sequential loop of importDeps, or by tc.Check through its Importer kp
callNext(stk) ==
  LET c == stk[Len(stk)] IN
  IF c.pc \in {"deps", "hook"}
    THEN Append(stk, Frame(Head(c.todo), branch(c.kp, c.ks)))
    ELSE stk

\* importDeps returned without an error: tc.Check starts; it resolves every
\* import of the files through Importer kp (FakeImportC; unsafe is its own)
startCheck(c) ==
  LET l == SelectSeq(depPaths(c.ks), LAMBDA x : importFakePkg(x) = NilPkg) IN
  [c EXCEPT !.todo = l, !.pc = IF l = <<>> THEN "ret" ELSE "hook"]

\* a loop that is left after the first import that succeeds
seqImportedFirst(c, ipath, r) ==
  IF r.err = NilErr
    THEN startCheck([c EXCEPT !.imps = @ \cup {<<ipath, r.pkg>>}, !.todo = Tail(@)])
    ELSE [c EXCEPT !.err = Issue(c.ks, ipath, r.err), !.pc = "fail"]

\* the sequential loop of importDeps after doImport(ipath) returned r
seqImported(c, ipath, r) ==
  IF r.err = NilErr
    THEN LET d == [c EXCEPT !.imps = @ \cup {<<ipath, r.pkg>>}, !.todo = Tail(@)] IN
         IF d.todo = <<>> THEN startCheck(d) ELSE d
    ELSE [c EXCEPT !.err = Issue(c.ks, ipath, r.err), !.pc = "fail"]

\* tc.Check after kp.ImportFrom(ipath) returned r: a failed import is a hard
\* error, and the Error callback keeps the first one
hookImported(c, ipath, r) ==
  [c EXCEPT !.todo = Tail(@),
            !.hard = IF r.err # NilErr /\ @ = NilErr THEN ErrImport(ipath, r.err) ELSE @,
            !.pc = IF Tail(c.todo) = <<>> THEN "ret" ELSE "hook"]

\* a worker returns: errg.Wait() is over when it was the last one
workerDone(c) ==
  LET d == [c EXCEPT !.nw = @ - 1] IN
  IF d.nw > 0 THEN d
  ELSE IF d.err = NilErr THEN startCheck(d) ELSE [d EXCEPT !.pc = "fail"]

\* a worker of the errgroup after doImport(ipath) returned r: on an error the
\* worker returns it and the group keeps the first one; on success it goes on
\* with the channel, and returns nil when the channel is drained
parImported(c, ipath, r) ==
  IF r.err = NilErr
    THEN LET d == [c EXCEPT !.imps = @ \cup {<<ipath, r.pkg>>}] IN
         IF c.todo = <<>> THEN workerDone(d) ELSE d
    ELSE workerDone([c EXCEPT !.err = IF @ = NilErr
                                        THEN Issue(c.ks, ipath, r.err) ELSE @])

\* ImportPackage of the top frame of g returns r: the frame is popped and the
\* caller (the user, the loop of importDeps, or a worker's loop) goes on
Return(G, g, ipath, r) ==
  LET stk == SubSeq(G[g].stk, 1, Len(G[g].stk) - 1) IN
  IF stk # <<>> THEN
    [G EXCEPT ![g].stk =
       callNext([stk EXCEPT ![Len(stk)] =
                   IF @.pc = "hook" THEN hookImported(@, ipath, r)
                                    ELSE seqImported(@, ipath, r)])]
  ELSE IF IsCaller(g) THEN
    [G EXCEPT ![g].stk = <<>>, ![g].res = r]
  ELSE
    LET p == Parent(g)
        n == Len(G[p].stk)
        c == parImported(G[p].stk[n], ipath, r)
        H == [G EXCEPT ![p].stk = callNext([@ EXCEPT ![n] = c]), ![g].stk = <<>>]
    IN IF c.nw = G[p].stk[n].nw THEN H
       ELSE [h \in DOMAIN H \ {g} |-> H[h]]

\* ---------------------------------------------------------------- invalidation
\* an InvalidateMemo callback: its tick, the state it was called on, the
\* activations of state.invalidate ([ks, the part of l still to visit]);
\* reach, solo are history: the states reachable through importedBy when the
\* call began, and whether no other callback overlapped this one
InvIdle ==
  [pc |-> "idle", T |-> 0, root |-> NilKey, stk |-> <<>>, reach |-> {}, solo |-> TRUE]

RECURSIVE Reach(_, _)
Reach(S, ks) ==
  LET nxt == ks \cup UNION {{S[k].imby[i] : i \in 1..Len(S[k].imby)} : k \in ks}
  IN IF nxt = ks THEN ks ELSE Reach(S, nxt)

\* return from the activations whose loop is over
RECURSIVE unwind(_)
unwind(stk) ==
  IF stk # <<>> /\ stk[Len(stk)].l = <<>>
    THEN unwind(SubSeq(stk, 1, Len(stk) - 1))
    ELSE stk

\* ks.invAt.Set(invAt)
setInvAt(s, T) == [s EXCEPT !.invAt = T, !.dirty = TRUE]

\* a snapshot that misses the reverse dependencies
snapshotNone(s) == <<>>

\* ks.imby.Lock(); l := ks.imby.l; ks.imby.Unlock()
snapshot(s) == s.imby

\* ---------------------------------------------------------------- import
Init ==
  /\ env \in Scenarios
  /\ mc = NoCache
  /\ st = <<>>
  /\ gs = [g \in Callers |-> Idle]
  /\ inv = [i \in Invalidators |-> InvIdle]
  /\ tick = 0
  /\ calls = [imp |-> 0, inv |-> 0]

\* a caller builds New(mx, cfg) and calls ImportPackage(ipath, srcDir)
RootCall(g, rq) ==
  /\ gs[g].stk = <<>>
  /\ calls.imp < MaxCalls
  /\ calls' = [calls EXCEPT !.imp = @ + 1]
  /\ gs' = [gs EXCEPT ![g] = [stk |-> <<Frame(rq.ipath, New(rq.cfg))>>,
                              req |-> rq, res |-> NoRes]]
  /\ UNCHANGED <<mc, env, st, inv, tick>>

\* ImportPackage up to ks.mu.Lock(): importFakePkg, findPkg, detectCycle,
\* kp.state(pp) and kp.branch(ks, pp)
Enter(g) ==
  /\ Running(g)
  /\ Top(g).pc = "enter"
  /\ LET f == Top(g)
         pp == findPkg(f.ipath)
         k == stateKey(f.kp, pp)
         cyc == detectCycle(f.kp, pp)
     IN CASE importFakePkg(f.ipath) # NilPkg ->
               /\ gs' = Return(gs, g, f.ipath,
                               [pkg |-> importFakePkg(f.ipath), err |-> NilErr])
               /\ st' = st
          [] importFakePkg(f.ipath) = NilPkg /\ ~pp.ok ->
               /\ gs' = Return(gs, g, f.ipath,
                               [pkg |-> NilPkg, err |-> ErrNotFound(f.ipath)])
               /\ st' = st
          [] importFakePkg(f.ipath) = NilPkg /\ pp.ok /\ cyc # NilErr ->
               /\ gs' = Return(gs, g, f.ipath, [pkg |-> NilPkg, err |-> cyc])
               /\ st' = st
          [] OTHER ->
               /\ st' = LET S == globalState(st, k) IN
                        IF f.kp.chain # <<>>
                          THEN importedBy(S, k, f.kp.chain[1]) ELSE S
               /\ gs' = SetTop(g, [f EXCEPT !.ks = k, !.pc = "lock"])
  /\ UNCHANGED <<mc, env, inv, tick, calls>>

\* ks.mu.Lock(); if ks.valid(kp.hash) return ks.result(); chkAt := memo.InvAt()
LockAndTest(g) ==
  /\ Running(g)
  /\ Top(g).pc = "lock"
  /\ LET f == Top(g)
         k == f.ks
     IN /\ Lock(st[k])
        /\ IF valid(st[k], k, f.kp.hash)
             THEN /\ gs' = Return(gs, g, f.ipath, result(st[k], k))
                  /\ UNCHANGED <<st, tick>>
             ELSE /\ tick' = InvAt(tick)
                  /\ st' = [st EXCEPT ![k].mu = g, ![k].dirty = FALSE]
                  /\ gs' = SetTop(g, [f EXCEPT !.chkAt = tick', !.pc = "check"])
  /\ UNCHANGED <<mc, env, inv, calls>>

\* a store that returns on an error without the Unlock
storeLeak(S, f, pkg, err) ==
  [S EXCEPT ![f.ks] = [@ EXCEPT !.pkg = pkg, !.err = err, !.hash = f.kp.hash,
                                !.chkAt = f.chkAt, !.ovl = f.kp.cfg.SrcMap,
                                !.mu = IF err = NilErr THEN NoG ELSE @]]

\* ks.pkg, ks.err = ...; ks.hash = kp.hash; ks.chkAt.Set(chkAt); the deferred
\* ks.mu.Unlock()
store(S, f, pkg, err) ==
  [S EXCEPT ![f.ks] = [@ EXCEPT !.pkg = pkg, !.err = err, !.hash = f.kp.hash,
                                !.chkAt = f.chkAt, !.ovl = f.kp.cfg.SrcMap,
                                !.mu = NoG]]

\* check: parseDir, then importDeps up to the first doImport of its loop or
\* to the start of its errgroup
Check(g) ==
  /\ Running(g)
  /\ Top(g).pc = "check"
  /\ LET f == Top(g)
         k == f.ks
         kx == branch(f.kp, k)
         paths == depPaths(k)
         n == MinNumCPU(Len(paths))
     IN IF ~src[k.ImportPath].parse THEN
          /\ st' = store(st, f, NilPkg, ErrParse(k))
          /\ gs' = Return(gs, g, f.ipath, result(st'[k], k))
        ELSE IF kx.cfg.NoConcurrency \/ Len(paths) < 2 THEN
          /\ st' = st
          /\ gs' = [gs EXCEPT ![g].stk =
                      callNext([@ EXCEPT ![Len(@)] =
                         IF paths = <<>> THEN startCheck(f)
                         ELSE [f EXCEPT !.todo = paths, !.pc = "deps"]])]
        ELSE
          /\ st' = st
          /\ gs' = [h \in DOMAIN gs \cup {Append(g, i) : i \in 1..n} |->
                      IF h \in DOMAIN gs
                        THEN IF h = g
                               THEN [gs[g] EXCEPT !.stk[Len(gs[g].stk)] =
                                       [f EXCEPT !.todo = paths, !.nw = n, !.pc = "wait"]]
                               ELSE gs[h]
                        ELSE Idle]
  /\ UNCHANGED <<mc, env, inv, tick, calls>>

\* a worker of the errgroup receives from the channel:
\* for ipath := range imps { doImport(ipath) }
WorkerTake(w) ==
  /\ w \in DOMAIN gs
  /\ ~IsCaller(w)
  /\ gs[w].stk = <<>>
  /\ LET p == Parent(w)
         n == Len(gs[p].stk)
         f == gs[p].stk[n]
     IN IF f.todo # <<>>
          THEN gs' = [gs EXCEPT ![p].stk[n].todo = Tail(@),
                                ![w].stk = <<Frame(Head(f.todo), branch(f.kp, f.ks))>>]
          ELSE gs' = [h \in DOMAIN gs \ {w} |->
                        IF h = p
                          THEN [gs[p] EXCEPT !.stk = callNext([@ EXCEPT ![n] = workerDone(@)])]
                          ELSE gs[h]]
  /\ UNCHANGED <<mc, env, st, inv, tick, calls>>

\* the end of check (the result of tc.Check, or the error of importDeps),
\* the store of importPkg and its return
CheckReturn(g) ==
  /\ Running(g)
  /\ Top(g).pc \in {"ret", "fail"}
  /\ LET f == Top(g)
         k == f.ks
         pkg == [path |-> k.ImportPath, at |-> f.chkAt, complete |-> TRUE]
     IN /\ st' = CASE f.pc = "fail" -> store(st, f, NilPkg, f.err)
                   [] f.pc = "ret" /\ f.hard # NilErr -> store(st, f, pkg, f.hard)
                   [] f.pc = "ret" /\ f.hard = NilErr /\ ~src[k.ImportPath].tc ->
                        store(st, f, pkg, ErrType(k))
                   [] OTHER -> store(st, f, pkg, NilErr)
        /\ gs' = Return(gs, g, f.ipath, result(st'[k], k))
  /\ UNCHANGED <<mc, env, inv, tick, calls>>

\* ---------------------------------------------------------------- callbacks
\* the VFS draws the tick of a change of the directory of state k
InvBegin(i, k) ==
  /\ inv[i].pc = "idle"
  /\ k.ImportPath \in env.cbs[i]
  /\ calls.inv < MaxInv
  /\ calls' = [calls EXCEPT !.inv = @ + 1]
  /\ tick' = InvAt(tick)
  /\ LET alone == \A j \in Invalidators : inv[j].pc = "idle" IN
     inv' = [j \in Invalidators |->
               IF j = i
                 THEN [pc |-> "call", T |-> tick', root |-> k, stk |-> <<>>,
                       reach |-> {}, solo |-> alone]
                 ELSE [inv[j] EXCEPT !.solo = (inv[j].pc = "idle")]]
  /\ UNCHANGED <<mc, env, st, gs>>

\* one activation of state.invalidate: ks.invAt.Set(invAt), the snapshot of
\* ks.imby.l, and the returns of the activations that are finished
invalidate(i, ks, stk) ==
  LET new == unwind(Append(stk, [ks |-> ks, l |-> snapshot(st[ks])]))
      reach == IF inv[i].pc = "call" THEN Reach(st, {inv[i].root}) ELSE inv[i].reach
      S == [st EXCEPT ![ks] = setInvAt(@, inv[i].T)]
  IN
  /\ st' = IF new = <<>>
             THEN [k \in DOMAIN S |->
                     IF k \in reach /\ S[k].cov < inv[i].T
                       THEN [S[k] EXCEPT !.cov = inv[i].T] ELSE S[k]]
             ELSE S
  /\ inv' = [inv EXCEPT ![i] =
               IF new = <<>> THEN InvIdle
               ELSE [@ EXCEPT !.stk = new, !.pc = "run", !.reach = reach]]

\* InvalidateMemo(invAt) calls ks.invalidate(invAt)
InvCall(i) ==
  /\ inv[i].pc = "call"
  /\ invalidate(i, inv[i].root, <<>>)
  /\ UNCHANGED <<mc, env, gs, tick, calls>>

\* for _, p := range l { p.invalidate(invAt) }
InvStep(i) ==
  /\ inv[i].pc = "run"
  /\ Len(inv[i].stk) < MaxInvDepth
  /\ LET n == Len(inv[i].stk)
         f == inv[i].stk[n]
     IN invalidate(i, Head(f.l), [inv[i].stk EXCEPT ![n].l = Tail(@)])
  /\ UNCHANGED <<mc, env, gs, tick, calls>>

Next ==
  \/ \E g \in Callers : \E rq \in env.reqs[g] : RootCall(g, rq)
  \/ \E g \in DOMAIN gs : Enter(g)
  \/ \E g \in DOMAIN gs : LockAndTest(g)
  \/ \E g \in DOMAIN gs : Check(g)
  \/ \E g \in DOMAIN gs : WorkerTake(g)
  \/ \E g \in DOMAIN gs : CheckReturn(g)
  \/ \E i \in Invalidators : \E k \in DOMAIN st : InvBegin(i, k)
  \/ \E i \in Invalidators : InvCall(i)
  \/ \E i \in Invalidators : InvStep(i)

Spec == Init /\ [][Next]_vars

\* ---------------------------------------------------------------- properties
\* the frames of g that are inside check for state k (between the sample of
\* chkAt and the store)
CheckPcs == {"check", "deps", "wait", "hook", "ret", "fail"}
Checking(k) ==
  UNION {{<<g, i>> : i \in {j \in 1..Len(gs[g].stk) :
                              gs[g].stk[j].ks = k /\ gs[g].stk[j].pc \in CheckPcs}} :
         g \in DOMAIN gs}

\* g takes the step of importPkg that locks the state and tests valid
LockStep(g) ==
  /\ Running(g)
  /\ Top(g).pc = "lock"
  /\ (g \notin DOMAIN gs' \/ gs'[g] # gs[g])

\* the state of the request holds the result of a check made with the hash
\* of the request, and no invalidation stored invAt since that check began
Fresh(g) ==
  LET k == Top(g).ks IN
  /\ st[k].chkAt > 0
  /\ ~st[k].dirty
  /\ (k.NoHash \/ st[k].hash = Top(g).kp.hash)

OneCheckAtATime == \A k \in DOMAIN st : Cardinality(Checking(k)) <= 1
SharedResult ==
  \A g \in DOMAIN gs : LockStep(g) /\ Fresh(g) => st' = st /\ tick' = tick

\* C1: at most one goroutine at a time is inside check for a stateKey, and a
\* requester that finds the result of a check made with its hash, with no
\* invalidation since that check began, returns it without running check
C1_AtMostOneCheckPerKey == []OneCheckAtATime /\ [][SharedResult]_vars

\* C1 witness: a requester waits for the mutex of a state that another
\* goroutine is checking for the first time
C1_Witness ==
  \E g \in DOMAIN gs : \E h \in DOMAIN gs :
    /\ g # h
    /\ Running(g)
    /\ Top(g).pc = "lock"
    /\ st[Top(g).ks].mu = h
    /\ st[Top(g).ks].chkAt = 0

\* C2: a state covered by a completed invalidate(T) whose stored result comes
\* from a check that sampled chkAt < T is not valid
C2_StaleAfterInvalidate ==
  \A k \in DOMAIN st : st[k].chkAt < st[k].cov => ~(st[k].chkAt > st[k].invAt)

\* the goroutines g waits for: the holder of the mutex it is blocked on
BlockedOn(g, h) ==
  /\ Running(g)
  /\ Top(g).pc = "lock"
  /\ st[Top(g).ks].mu = h
  /\ h # NoG

\* C3: no set of goroutines each hold a State mutex while blocked on a State
\* mutex held by another of the set
C3_NoCircularWait ==
  ~\E D \in SUBSET DOMAIN gs :
     /\ D # {}
     /\ \A g \in D : \E h \in D : BlockedOn(g, h)

\* C4: a call of state.invalidate returns: it is never invalidating a state
\* inside the invalidation of that same state
C4_InvalidateTerminates ==
  \A i \in Invalidators :
    \A a \in 1..Len(inv[i].stk) : \A b \in 1..Len(inv[i].stk) :
      a # b => inv[i].stk[a].ks # inv[i].stk[b].ks

\* invalidator i takes a step of state.invalidate, and its last one
InvMove(i) == inv'[i] # inv[i] /\ tick' = tick
InvEnd(i) == InvMove(i) /\ inv'[i].pc = "idle"
ReachAtCall(i) ==
  IF inv[i].pc = "call" THEN Reach(st, {inv[i].root}) ELSE inv[i].reach

\* when invalidate(T) returns and no other callback overlapped it, every
\* state that was reachable from its state through importedBy has invAt = T,
\* so those checked before T are not valid
Propagated ==
  \A i \in Invalidators :
    InvEnd(i) /\ inv[i].solo =>
      \A k \in ReachAtCall(i) :
        /\ st'[k].invAt = inv[i].T
        /\ st'[k].chkAt < inv[i].T => ~valid(st'[k], k, st'[k].hash)
\* a step of invalidate changes invAt only, and of no state outside the
\* states reachable through importedBy
Framed ==
  \A i \in Invalidators :
    InvMove(i) =>
      \A k \in DOMAIN st :
        /\ st'[k].chkAt = st[k].chkAt /\ st'[k].pkg = st[k].pkg
        /\ st'[k].err = st[k].err /\ st'[k].hash = st[k].hash
        /\ st'[k].imby = st[k].imby /\ st'[k].mu = st[k].mu
        /\ k \notin Reach(st, {inv[i].root}) => st'[k].invAt = st[k].invAt

\* C5: invalidating z at T makes z and the states reachable from it through
\* importedBy (y, x) invalid, and changes nothing of any other state (w)
C5_ReverseDepInvalidation == [][Propagated /\ Framed]_vars

\* C5 witness: x, y, z were checked and then invalidated, w is still valid
C5_Witness ==
  /\ env = ScChain
  /\ \A k \in DOMAIN st : k.ImportPath \in {"x", "y", "z"} =>
       st[k].chkAt > 0 /\ st[k].invAt > st[k].chkAt /\ st[k].cov = st[k].invAt
  /\ \E k \in DOMAIN st : k.ImportPath = "x"
  /\ \E k \in DOMAIN st : k.ImportPath = "w" /\ st[k].chkAt > st[k].invAt

\* the result importPkg returns for the stored pkg and err
Stored(s) ==
  IF s.err # NilErr THEN [pkg |-> NilPkg, err |-> s.err]
  ELSE [pkg |-> s.pkg, err |-> NilErr]

\* a call of ImportPackage by caller g that finds a fresh result returns it
\* and leaves every state alone; a call that ran check returns what it stored
HitReturnsStored ==
  \A g \in Callers :
    LockStep(g) /\ Len(gs[g].stk) = 1 /\ Fresh(g) =>
      /\ st' = st
      /\ tick' = tick
      /\ gs'[g].stk = <<>>
      /\ gs'[g].res = Stored(st[Top(g).ks])
MissReturnsStored ==
  \A g \in Callers :
    /\ Running(g) /\ Len(gs[g].stk) = 1 /\ Top(g).pc \in CheckPcs
    /\ gs'[g].stk = <<>>
    => gs'[g].res = Stored(st'[Top(g).ks])

\* C6: with no invalidation and the same overlay hash, the second of two
\* ImportPackage calls returns the stored Package or error of the first and
\* runs no check
C6_IdempotentImport == [][HitReturnsStored /\ MissReturnsStored]_vars

\* C6 witness: the second import of x returned its package, and x, y, z, w
\* were checked once each
C6_Witness ==
  /\ env = ScChain
  /\ calls = [imp |-> 2, inv |-> 0]
  /\ tick = 4
  /\ gs[<<1>>].stk = <<>>
  /\ gs[<<1>>].res.err = NilErr
  /\ gs[<<1>>].res.pkg.path = "x"

\* g takes the step of ImportPackage that resolves the path, detects cycles
\* and looks up the state
EnterStep(g) ==
  /\ Running(g)
  /\ Top(g).pc = "enter"
  /\ (g \notin DOMAIN gs' \/ gs'[g] # gs[g])

\* the ancestors of the request of g, innermost first, that are states of
\* the requested import path or directory
Ancestors(g) ==
  {i \in 1..Len(Top(g).kp.chain) :
     \/ Top(g).kp.chain[i].ImportPath = Top(g).ipath
     \/ Top(g).kp.chain[i].Dir = DirOf(Top(g).ipath)}
CycleText(g) ==
  LET j == CHOOSE i \in Ancestors(g) : \A h \in Ancestors(g) : i <= h
      c == Top(g).kp.chain
  IN <<Name(Top(g).ipath, DirOf(Top(g).ipath))>> \o
     [i \in 1..j |-> Name(c[i].ImportPath, c[i].Dir)]

\* a request for a package an ancestor is checking fails with the cycle
\* error before any state is looked up, registered or locked
CycleRejected ==
  \A g \in DOMAIN gs :
    EnterStep(g) /\ Top(g).ipath \in DOMAIN src /\ Ancestors(g) # {} =>
      /\ st' = st
      /\ LET n == Len(gs[g].stk) IN
         IF n > 1
           THEN /\ gs'[g].stk[n - 1].pc = "fail"
                /\ gs'[g].stk[n - 1].err.text = CycleText(g)
           ELSE LET p == Parent(g)
                    m == Len(gs[p].stk)
                IN /\ g \notin DOMAIN gs'
                   /\ gs'[p].stk[m].err # NilErr
                   /\ gs[p].stk[m].err = NilErr => gs'[p].stk[m].err.text = CycleText(g)
CycleNamesBoth ==
  \A g \in Callers :
    env = ScCycle /\ gs[g].req.ipath # "" /\ gs[g].stk = <<>> =>
      /\ gs[g].res.err # NilErr
      /\ {"a", "b"} \subseteq {gs[g].res.err.text[i][1] : i \in 1..Len(gs[g].res.err.text)}

\* C7: a request that targets the state of an ancestor Importer returns an
\* import-cycle error listing the target and the states from the detecting
\* frame up to the nearest such ancestor, before any lookup or lock; with
\* a importing b and b importing a, an import of a or b returns an error
\* naming both
C7_CycleDetection == [][CycleRejected]_vars /\ []CycleNamesBoth

\* C7 witness: the import of a returned the cycle error a <~ b <~ a
C7_Witness ==
  /\ env = ScCycle
  /\ gs[<<1>>].stk = <<>>
  /\ gs[<<1>>].req.ipath = "a"
  /\ gs[<<1>>].res.err.text = <<Name("a", "a"), Name("b", "b"), Name("a", "a")>>

\* C8: a held State mutex belongs to a goroutine that is inside check for
\* that state, and the workers of a fan-out live only while their parent
\* waits for them: when no import call is in flight no mutex is held
C8_NoLockLeak ==
  /\ \A k \in DOMAIN st :
       st[k].mu # NoG => \E c \in Checking(k) : c[1] = st[k].mu
  /\ \A w \in DOMAIN gs \ Callers :
       Running(Parent(w)) /\ Top(Parent(w)).pc = "wait"

\* C8 witness: a call that locked states returned an error, and every mutex
\* is free
C8_Witness ==
  /\ \E g \in Callers : gs[g].stk = <<>> /\ gs[g].res.err.kind = "issue"
  /\ \A g \in DOMAIN gs : gs[g].stk = <<>>
  /\ \A k \in DOMAIN st : st[k].mu = NoG
  /\ \E k \in DOMAIN st : st[k].chkAt > 0 /\ st[k].err.kind = "parse"

\* the test of importPkg hits the cache iff chkAt > invAt and (NoHash or the
\* stored hash is the hash of the request); on a miss the check begins
ValidIff ==
  \A g \in DOMAIN gs :
    LockStep(g) =>
      LET k == Top(g).ks
          ok == st[k].chkAt > st[k].invAt /\ (k.NoHash \/ st[k].hash = Top(g).kp.hash)
      IN /\ (st' = st /\ tick' = tick) <=> ok
         /\ ~ok => st'[k].mu = g /\ gs'[g].stk[Len(gs[g].stk)].pc = "check"
\* a check stores the hash of its request
StoresHash ==
  \A k \in DOMAIN st :
    st'[k].chkAt # st[k].chkAt =>
      \E c \in Checking(k) :
        /\ st'[k].chkAt = gs[c[1]].stk[c[2]].chkAt
        /\ st'[k].hash = gs[c[1]].stk[c[2]].kp.hash

\* C9: a state is valid for overlay hash H iff chkAt > invAt and (NoHash or
\* hash = H); a root import with another overlay hash re-runs check and
\* stores the new hash
C9_OverlayKeyedCache == [][ValidIff /\ StoresHash]_vars

\* C9 witness: with no invalidation, the root state of p was checked again
\* for the second overlay while q was checked once
C9_Witness ==
  /\ env = ScOverlay
  /\ calls = [imp |-> 2, inv |-> 0]
  /\ tick = 3
  /\ \A g \in DOMAIN gs : gs[g].stk = <<>>
  /\ \E k \in DOMAIN st : ~k.NoHash /\ st[k].chkAt = 3 /\ st[k].hash # 0

\* ---------------------------------------------------------------- the cache alone
\* the users of mgcSharedCache, with the importer at rest
CacheInit ==
  /\ env = ScChain
  /\ mc = NoCache
  /\ st = <<>>
  /\ gs = [g \in Callers |-> Idle]
  /\ inv = [i \in Invalidators |-> InvIdle]
  /\ tick = 0
  /\ calls = [imp |-> 0, inv |-> 0]

atRest == UNCHANGED <<env, st, gs, inv, tick, calls>>

Put == \E k \in CacheKeys, pkg \in CachePkgs : put(Ent(k, pkg)) /\ atRest
Del == \E k \in CacheKeys : del(k) /\ atRest
Get == \E k \in CacheKeys : get(k) /\ atRest
Prune ==
  \E pats \in SeqsOver(Regexps, MaxPats) : \E ord \in Orders(DOMAIN mc.m) :
    prune(pats, ord) /\ atRest

Entries == \E ord \in Orders(DOMAIN mc.m) : entries(ord) /\ atRest
ForEach == \E ord \in Orders(DOMAIN mc.m) : forEach(ord) /\ atRest

CacheNext == Put \/ Del \/ Get \/ Prune \/ Entries \/ ForEach

SpecCache == CacheInit /\ [][CacheNext]_vars

\* the keys of the map before the call that match one of the patterns
Matched ==
  {k \in DOMAIN mc.before : \E i \in 1..Len(mc.pats) : MatchString(mc.pats[i], k)}

\* C10: prune removes exactly the entries whose key matches a pattern, leaves
\* the others unchanged and returns each evicted entry exactly once
C10_PruneExactlyOnce ==
  mc.op = "prune" =>
    /\ DOMAIN mc.m = DOMAIN mc.before \ Matched
    /\ \A k \in DOMAIN mc.m : mc.m[k] = mc.before[k]
    /\ \A i \in 1..Len(mc.ret) : mc.ret[i].Key \in Matched /\ mc.ret[i] = mc.before[mc.ret[i].Key]
    /\ \A k \in Matched : Cardinality({i \in 1..Len(mc.ret) : mc.ret[i].Key = k}) = 1
    /\ mc.pats = <<>> => mc.m = mc.before

\* every entry of the map holds a complete package, under its own key
AllComplete ==
  \A k \in DOMAIN mc.m : mc.m[k].Pkg.complete /\ mc.m[k].Key = k
\* a put of an incomplete package leaves the map as it was; a put of a
\* complete one stores it and nothing else
PutStep == mc' # mc /\ mc'.op = "put"
PutRejectsIncomplete ==
  PutStep =>
    LET e == mc'.ret[1] IN
    IF e.Pkg.complete
      THEN /\ DOMAIN mc'.m = DOMAIN mc.m \cup {e.Key}
           /\ \A k \in DOMAIN mc'.m : mc'.m[k] = IF k = e.Key THEN e ELSE mc.m[k]
      ELSE mc'.m = mc.m
\* get, entries and forEach leave the map alone
ReadersKeepMap ==
  mc' # mc /\ mc'.op \in {"get", "entries", "forEach"} => mc'.m = mc.m

\* C11: after any sequence of put, del, prune, get, entries and forEach every
\* entry of the map holds a complete package, and a put of an incomplete
\* package leaves the map unchanged, an entry under the same key included
C11_IncompleteNeverCached ==
  []AllComplete /\ [][PutRejectsIncomplete /\ ReadersKeepMap]_vars

\* C11 witness: an incomplete package was put under a key that holds an
\* entry, and the entry is still there
C11_Witness ==
  /\ mc.op = "put"
  /\ ~mc.ret[1].Pkg.complete
  /\ mc.ret[1].Key \in DOMAIN mc.m
  /\ mc.m[mc.ret[1].Key].Pkg.complete
  /\ mc.m = mc.before

\* ---------------------------------------------------------------- importDeps
\* the frames of all goroutines
Frames == UNION {{gs[g].stk[i] : i \in 1..Len(gs[g].stk)} : g \in DOMAIN gs}

\* what kp.ImportPackage(ipath, bp.Dir) returns to the check of frame f when
\* the state of ipath holds a result
depResult(f, ipath) ==
  LET kx == branch(f.kp, f.ks)
      pp == findPkg(ipath)
      k == stateKey(kx, pp)
  IN CASE importFakePkg(ipath) # NilPkg -> [pkg |-> importFakePkg(ipath), err |-> NilErr]
       [] importFakePkg(ipath) = NilPkg /\ ~pp.ok -> [pkg |-> NilPkg, err |-> ErrNotFound(ipath)]
       [] importFakePkg(ipath) = NilPkg /\ pp.ok /\ detectCycle(kx, pp) # NilErr ->
            [pkg |-> NilPkg, err |-> detectCycle(kx, pp)]
       [] OTHER -> IF k \in DOMAIN st THEN result(st[k], k) ELSE NoRes

\* the paths of frame f whose import fails, in the order of paths
failing(f) ==
  SelectSeq(depPaths(f.ks), LAMBDA x : depResult(f, x).err # NilErr)

\* the error the sequential loop of importDeps returns: that of the first
\* path, in the order of paths, whose import fails
seqError(f) ==
  IF failing(f) = <<>> THEN NilErr
  ELSE Issue(f.ks, Head(failing(f)), depResult(f, Head(failing(f))).err)

\* C12: importDeps returns the same error with and without NoConcurrency,
\* the one of the sequential loop, and on success the same imports map
C12_ParallelEqualsSequential ==
  \A f \in Frames :
    /\ f.pc = "fail" => f.err.at = seqError(f).at
    /\ f.pc \in {"hook", "ret"} =>
         {x[1] : x \in f.imps} = {depPaths(f.ks)[i] : i \in 1..Len(depPaths(f.ks))}

\* worker w receives a path from the channel and starts its doImport
TakesPath(w) ==
  /\ w \in DOMAIN gs /\ ~IsCaller(w) /\ gs[w].stk = <<>>
  /\ w \in DOMAIN gs' /\ gs'[w].stk # <<>>

\* the frame whose importDeps started worker w
Fanout(w) == gs[Parent(w)].stk[Len(gs[Parent(w)].stk)]

NoStartAfterFailure ==
  \A w \in DOMAIN gs : TakesPath(w) => Fanout(w).err = NilErr

\* C13: after the doImport of a worker has returned an error, no worker of
\* the same fan-out starts the import of a further path from the channel
C13_FirstFailureCancelsPeers == [][NoStartAfterFailure]_vars

\* every doImport of the direct dependencies of frame f has returned, each
\* with a package and no error
DepsDone(f) ==
  /\ f.err = NilErr
  /\ f.nw = 0
  /\ {x[1] : x \in f.imps} = {depPaths(f.ks)[i] : i \in 1..Len(depPaths(f.ks))}
  /\ \A x \in f.imps : x[2] # NilPkg /\ x[2].complete

\* the type checker of frame f has been started
InChecker(f) == f.pc \in {"hook", "ret"}

\* C14: in both modes the type checker of a package starts only after every
\* doImport of its direct dependencies has returned, no worker of its
\* fan-out is left, and it does not start if one of them returned an error
C14_DepsBeforeChecker ==
  /\ \A f \in Frames : InChecker(f) => DepsDone(f)
  /\ \A g \in DOMAIN gs :
       Running(g) /\ InChecker(Top(g)) => ~\E w \in DOMAIN gs : ~IsCaller(w) /\ Parent(w) = g

\* C14 witness: the checker of a package with two dependencies, imported by
\* two workers, is running
C14_Witness ==
  \E f \in Frames :
    /\ f.pc = "hook"
    /\ Len(depPaths(f.ks)) = 2
    /\ ~f.kp.cfg.NoConcurrency
    /\ Cardinality(f.imps) = 2

\* a request for "C" or "unsafe" returns the placeholder package and a nil
\* error in the step that enters ImportPackage, and no state, importedBy list
\* or tick changes
FakeReturned ==
  \A g \in DOMAIN gs :
    EnterStep(g) /\ Top(g).ipath \in {"C", "unsafe"} =>
      /\ st' = st
      /\ tick' = tick
      /\ gs' = Return(gs, g, Top(g).ipath,
                      [pkg |-> IF Top(g).ipath = "C" THEN pkgC ELSE pkgUnsafe,
                       err |-> NilErr])

\* C15: ImportPackage("C", d) and ImportPackage("unsafe", d) return the
\* pre-built packages with a nil error, without the resolver and without
\* looking up, creating, locking or changing any State or importedBy list
C15_FakePackages == [][FakeReturned]_vars

\* C15 witness: a root import of "C", which the resolver does not know, has
\* returned pkgC while another caller holds state mutexes
C15_Witness ==
  /\ gs[<<2>>].req.ipath = "C"
  /\ gs[<<2>>].stk = <<>>
  /\ gs[<<2>>].res = [pkg |-> pkgC, err |-> NilErr]
  /\ "C" \notin DOMAIN src
  /\ \E k \in DOMAIN st : st[k].mu # NoG

InvAtGrows == \A k \in DOMAIN st : st'[k].invAt >= st[k].invAt

\* C16: in every interleaving of invalidate calls the invAt of a State never
\* decreases
C16_InvAtMonotonic == [][InvAtGrows]_vars

\* goroutine h is g or one of the goroutines whose fan-out g descends from
IsAncestor(h, g) == Len(h) <= Len(g) /\ SubSeq(g, 1, Len(h)) = h

\* the State a frame locks or has locked is not the State of an Importer on
\* its parent chain, and the enclosing checks hold the mutexes of those
NoReentry ==
  \A f \in Frames :
    f.pc \in {"lock"} \cup CheckPcs =>
      \A i \in 1..Len(f.kp.chain) :
        /\ f.kp.chain[i] # f.ks
        /\ st[f.kp.chain[i]].mu # NoG
\* no goroutine waits for a mutex that it, or a goroutine waiting for its
\* fan-out, holds
NoSelfWait ==
  \A g \in DOMAIN gs : \A h \in DOMAIN gs : BlockedOn(g, h) => ~IsAncestor(h, g)

\* C17: importPkg never reaches ks.mu.Lock() for the State of an Importer on
\* its parent chain; a self-import is rejected by detectCycle, not blocked
C17_NoReentry == NoReentry /\ NoSelfWait

\* C17 witness: s imports s; the import of s returned the cycle error of the
\* nested request and every mutex is free
C17_Witness ==
  /\ env = ScErr
  /\ gs[<<1>>].req.ipath = "s"
  /\ gs[<<1>>].stk = <<>>
  /\ gs[<<1>>].res.err.kind = "issue"
  /\ gs[<<1>>].res.err.text = <<Name("s", "s"), Name("s", "s")>>
  /\ \A k \in DOMAIN st : st[k].mu = NoG

\* a request whose overlay is not the one the stored result was parsed
\* through is not served from the stored result: check runs again
OverlayBusts ==
  \A g \in DOMAIN gs :
    LockStep(g) =>
      LET f == Top(g)
          k == f.ks
      IN st[k].chkAt > 0 /\ st[k].ovl # f.kp.cfg.SrcMap =>
           /\ st'[k].mu = g
           /\ gs'[g].stk[Len(gs[g].stk)].pc = "check"

\* C18: when the overlay differs between two successive root imports, the
\* State of the root and of every transitive dependency, all parsed through
\* the overlay, is checked again by the second import
C18_OverlayBustsEveryCheck == [][OverlayBusts]_vars

\* the Config of the root call that the frames of goroutine g descend from
RootCfg(g) == gs[<<g[1]>>].req.cfg

\* the State looked up for a dependency has none of the user's settings in
\* its key, and its check gets no PackageSrc
DepKeysPlain ==
  \A g \in DOMAIN gs : \A i \in 1..Len(gs[g].stk) :
    LET f == gs[g].stk[i] IN
    f.pc # "enter" /\ f.kp.chain # <<>> =>
      /\ ~f.ks.CheckFuncs /\ ~f.ks.CheckImports /\ ~f.ks.Tests
      /\ f.ks.NoHash
      /\ f.ks.TypesInfo = IF RootCfg(g).ImportsTypesInfo THEN RootCfg(g).TypesInfo ELSE 0
      /\ f.kp.cfg.PackageSrc = 0 /\ f.kp.hash = 0
\* the State of the root call has them all
RootKeyUser ==
  \A g \in DOMAIN gs : \A i \in 1..Len(gs[g].stk) :
    LET f == gs[g].stk[i] IN
    f.pc # "enter" /\ f.kp.chain = <<>> =>
      /\ f.ks.CheckFuncs = RootCfg(g).CheckFuncs
      /\ f.ks.CheckImports = RootCfg(g).CheckImports
      /\ f.ks.Tests = RootCfg(g).Tests
      /\ f.ks.TypesInfo = RootCfg(g).TypesInfo
      /\ f.ks.NoHash = (RootCfg(g).SrcMap = 0)
      /\ f.kp.cfg.PackageSrc = RootCfg(g).PackageSrc

\* C19: every State looked up for a direct or transitive dependency has a
\* key with CheckFuncs, CheckImports, Tests off, NoHash on and TypesInfo 0
\* unless the root Config sets ImportsTypesInfo; only the State of the root
\* call carries the user's settings, overlay hash and PackageSrc
C19_RootOnlySettings == DepKeysPlain /\ RootKeyUser

\* C19 witness: under a root Config with every user setting on, a dependency
\* is being checked, once without and once with ImportsTypesInfo
C19_Witness ==
  /\ env = ScOverlay
  /\ \E f \in Frames :
       /\ f.kp.chain # <<>> /\ f.pc = "check" /\ f.ks.TypesInfo = 1
       /\ f.kp.chain[1].CheckFuncs /\ ~f.kp.chain[1].NoHash
  /\ \E k \in DOMAIN st : k.ImportPath = "q" /\ k.TypesInfo = 0 /\ st[k].chkAt > 0

\* no importedBy list holds a State twice
ImbyIsSet ==
  \A k \in DOMAIN st :
    \A i \in 1..Len(st[k].imby) : \A j \in 1..Len(st[k].imby) :
      i # j => st[k].imby[i] # st[k].imby[j]
\* a step keeps every entry of every list at its place
ImbyGrows ==
  \A k \in DOMAIN st :
    /\ Len(st'[k].imby) >= Len(st[k].imby)
    /\ SubSeq(st'[k].imby, 1, Len(st[k].imby)) = st[k].imby
\* a registration leaves the snapshots of the running invalidate calls alone,
\* and a snapshot is the list as it was when invalidate read it
SnapshotKept ==
  /\ (\E k \in DOMAIN st' : k \notin DOMAIN st \/ st'[k].imby # st[k].imby) => inv' = inv
  /\ \A i \in Invalidators :
       Len(inv'[i].stk) > Len(inv[i].stk) =>
         LET n == Len(inv'[i].stk) IN
         inv'[i].stk[n].l = st[inv'[i].stk[n].ks].imby

\* C20: no importedBy list contains a State twice, no entry is ever removed
\* or reordered, and a snapshot taken by invalidate is not altered by a
\* concurrent registration
C20_ImportedByAppendOnly == []ImbyIsSet /\ [][ImbyGrows /\ SnapshotKept]_vars

\* C20 witness: z was checked again after an invalidation, so y registered
\* itself with z a second time, and z is still imported by y once
C20_Witness ==
  /\ env = ScChain
  /\ \E k \in DOMAIN st :
       /\ k.ImportPath = "z"
       /\ st[k].invAt > 0
       /\ st[k].chkAt > st[k].invAt
       /\ Len(st[k].imby) = 1
       /\ st[k].imby[1].ImportPath = "y"

====
